---- MODULE Spec2Model ----
(***************************************************************************)
(* Model of aphrodite/endpoints/llm.py: the LLM class, its generate()      *)
(* entry point, _add_request() and the _run_engine() poll loop, driving    *)
(* an AphroditeEngine through add_request / step /                         *)
(* has_unfinished_requests / get_num_unfinished_requests.                  *)
(*                                                                         *)
(* The engine (aphrodite.engine.aphrodite) and the Counter                 *)
(* (aphrodite.common.utils) are not part of the source file; they are      *)
(* modelled from the contract the specification gives them.                *)
(***************************************************************************)
EXTENDS Integers, Sequences, FiniteSets, TLC

(***************************************************************************)
(* Bounds of the model.                                                    *)
(***************************************************************************)
\* longest prompts / prompt_token_ids list a caller passes
MaxBatch == 2
\* number of generate() calls made on the one LLM instance
MaxCalls == 2
\* number of errors the engine may raise over the instance's lifetime
MaxFaults == 1
\* number of step() calls of one generate() call that finish no request
MaxIdle == 1
\* most requests the caller lets the engine hold at once
MaxInFlight == 2

(***************************************************************************)
(* Python values.  A value is a record [tag, val]: None, a str (val is the *)
(* sequence of its characters) or a list (val is the sequence of its       *)
(* elements).                                                              *)
(***************************************************************************)
None == [tag |-> "none", val |-> <<>>]

PyStr(chars) == [tag |-> "str", val |-> chars]

PyList(elems) == [tag |-> "list", val |-> elems]

IsNone(v) == v.tag = "none"

\* isinstance(v, str)
isinstance_str(v) == v.tag = "str"

\* len(v) of a str (its character count) or a list (its element count)
len(v) == Len(v.val)

\* v[i] with Python's 0-based index: a one-character str of a str, the
\* element of a list
getitem(v, i) ==
    IF v.tag = "str" THEN PyStr(<<v.val[i + 1]>>) ELSE v.val[i + 1]

Digits == <<"0", "1", "2", "3", "4", "5", "6", "7", "8", "9">>

\* str(n) of a non-negative int: its decimal digits, most significant first
RECURSIVE str(_)
str(n) ==
    IF n < 10 THEN <<Digits[n + 1]>>
    ELSE str(n \div 10) \o <<Digits[(n % 10) + 1]>>

DigitValue(c) == CHOOSE d \in 0..9 : Digits[d + 1] = c

\* int(s) of a decimal digit string: the inverse reading of a request id
RECURSIVE int(_)
int(s) ==
    IF Len(s) = 0 THEN 0
    ELSE 10 * int(SubSeq(s, 1, Len(s) - 1)) + DigitValue(s[Len(s)])

(***************************************************************************)
(* Inputs a caller passes to generate().                                   *)
(***************************************************************************)
PromptStrs == {PyStr(<<"a">>), PyStr(<<"b", "c">>)}

\* the prompts and token lists that batches are cut from
PromptPool == <<PyStr(<<"b", "c">>), PyStr(<<"a">>), PyStr(<<"a">>), PyStr(<<"d">>)>>

TokenPool == <<PyList(<<1>>), PyList(<<2, 3>>), PyList(<<1>>), PyList(<<4>>)>>

PromptArgs ==
    {None} \cup PromptStrs
           \cup {PyList(SubSeq(PromptPool, 1, k)) : k \in 0..MaxBatch}

TokenArgs == {None} \cup {PyList(SubSeq(TokenPool, 1, k)) : k \in 0..MaxBatch}

SamplingArgs == {"None", "custom"}

\* the arguments of the calls made: every shape of prompts and token lists
\* with and without the bar under the default sampling parameters, the
\* prompt lists also under sampling parameters of the caller
CallArgs ==
    {[prompts |-> p, sampling_params |-> "None", prompt_token_ids |-> t,
      use_tqdm |-> u] : p \in PromptArgs, t \in TokenArgs, u \in BOOLEAN}
    \cup
    {[prompts |-> p, sampling_params |-> "custom", prompt_token_ids |-> None,
      use_tqdm |-> FALSE] : p \in PromptArgs \ ({None} \cup PromptStrs)}

(***************************************************************************)
(* State.                                                                  *)
(***************************************************************************)
VARIABLES
    pc,                 \* position of the driver: "idle", "submit", "loop"
    request_counter,    \* self.request_counter: the next value it yields
    unfinished,         \* the engine: ids of the registered unfinished requests
    faults,             \* errors the engine may still raise
    prompts,            \* generate(): local prompts, after line 96
    sampling_params,    \* generate(): local sampling_params, after line 101
    prompt_token_ids,   \* generate(): parameter prompt_token_ids
    use_tqdm,           \* generate() / _run_engine(): parameter use_tqdm
    num_requests,       \* generate(): local num_requests
    i,                  \* generate(): loop index of line 107
    outputs,            \* _run_engine(): local outputs
    pbar,               \* _run_engine(): the tqdm bar and the calls made on it
    outcome,            \* how the last call ended
    result,             \* what the last call returned: None or a list
    ops,                \* the current call's number of calls of each engine
                        \* operation
    submitted,          \* the current call's add_request calls, in order
    reported,           \* the ids the engine reported finished to the
                        \* current call, in order
    partial,            \* the outputs not finished that the engine yielded to
                        \* the current call
    idle,               \* steps of the current call that finished no request
    raised,             \* the engine operation that raised in the current call
    issued,             \* every request id ever passed to add_request
    calls,              \* generate() calls made so far
    raw,                \* the arguments of the current call as passed
    pre                 \* when the call began: the engine's unfinished ids
                        \* and the number of request ids issued

vars == <<pc, request_counter, unfinished, faults, prompts, sampling_params,
          prompt_token_ids, use_tqdm, num_requests, i, outputs, pbar, outcome,
          result, ops, submitted, reported, partial, idle, raised, issued,
          calls, raw, pre>>

\* no bar: use_tqdm is false, or line 128 is not reached yet
NoBar == [made |-> 0, total |-> 0, n |-> 0, closed |-> 0]

NoOps == [add_request |-> 0, get_num_unfinished_requests |-> 0,
          has_unfinished_requests |-> 0, step |-> 0]

NoArgs == [prompts |-> None, sampling_params |-> "None",
           prompt_token_ids |-> None, use_tqdm |-> FALSE]

\* LLM.__init__: a fresh engine and a fresh Counter
Init ==
    /\ pc = "idle"
    /\ request_counter = 0
    /\ unfinished = {}
    /\ faults = MaxFaults
    /\ prompts = None
    /\ sampling_params = "None"
    /\ prompt_token_ids = None
    /\ use_tqdm = FALSE
    /\ num_requests = 0
    /\ i = 0
    /\ outputs = <<>>
    /\ pbar = NoBar
    /\ outcome = "none"
    /\ result = None
    /\ ops = NoOps
    /\ submitted = <<>>
    /\ reported = <<>>
    /\ partial = 0
    /\ idle = 0
    /\ raised = "none"
    /\ issued = <<>>
    /\ calls = 0
    /\ raw = NoArgs
    /\ pre = [unfinished |-> {}, issued |-> 0]

\* the locals of generate() and _run_engine() once the call's frame is gone
FrameGone ==
    /\ prompts' = None
    /\ sampling_params' = "None"
    /\ prompt_token_ids' = None
    /\ use_tqdm' = FALSE
    /\ num_requests' = 0
    /\ i' = 0
    /\ outputs' = <<>>

(***************************************************************************)
(* The Counter and the engine.                                             *)
(***************************************************************************)
\* next(counter): the value yielded and the counter's state after it
CounterNext(c) == [value |-> c, counter |-> c + 1]

has_unfinished_requests(U) == U # {}

get_num_unfinished_requests(U) == Cardinality(U)

\* add_request registers the request under its id
add_request(U, request_id) == U \cup {request_id}

\* the sequences of distinct elements of S
Arrangements(S) ==
    UNION {{s \in [1..n -> S] : \A a, b \in 1..n : a # b => s[a] # s[b]}
           : n \in 0..Cardinality(S)}

\* what one step() may return with the requests U in flight: the outputs of
\* the requests it finishes, in any order, and, while a request stays in
\* flight, the output, not finished, of one such request before or after them
StepResults(U) ==
    UNION {
        LET done == [k \in 1..Len(ids) |->
                        [request_id |-> ids[k], finished |-> TRUE]]
            rest == U \ {ids[k] : k \in 1..Len(ids)}
        IN IF rest = {} THEN {done}
           ELSE UNION {{<<[request_id |-> r, finished |-> FALSE]>> \o done,
                        done \o <<[request_id |-> r, finished |-> FALSE]>>}
                       : r \in rest}
        : ids \in Arrangements(U)}

\* the requests a step's outputs report finished leave the engine
AfterStep(U, outs) ==
    U \ {outs[k].request_id : k \in {j \in 1..Len(outs) : outs[j].finished}}

\* one more call of the engine operation op
Called(counts, op) == [counts EXCEPT ![op] = @ + 1]

(***************************************************************************)
(* generate(), lines 93-106: validation and reshaping of the arguments.    *)
(***************************************************************************)
\* line 93 testing the arguments' truth, "not prompts and not prompt_token_ids"
NeitherGivenOrEmpty(p, t) ==
    /\ IsNone(p) \/ len(p) = 0
    /\ IsNone(t) \/ len(t) = 0

\* line 93 without its check
NeitherGivenUnchecked(p, t) == FALSE

\* line 93
NeitherGiven(p, t) == IsNone(p) /\ IsNone(t)

\* lines 95-96 left out
NormalizeNothing(p) == p

\* lines 95-96
Normalize(p) == IF isinstance_str(p) THEN PyList(<<p>>) ELSE p

\* lines 97-98 rejecting only surplus prompts
LengthMismatchOneWay(p, t) == ~IsNone(p) /\ ~IsNone(t) /\ len(p) > len(t)

\* lines 97-98, on the prompts of line 96
LengthMismatch(p, t) == ~IsNone(p) /\ ~IsNone(t) /\ len(p) # len(t)

\* lines 100-101
DefaultSampling(sp) == IF sp = "None" THEN "SamplingParams()" ELSE sp

\* lines 93-106: the exception raised ("ok" if none) and the locals
GenerateEntry(p, sp, t) ==
    LET np == Normalize(p) IN
    IF NeitherGiven(p, t) \/ LengthMismatch(np, t)
    THEN [err |-> "ValueError", prompts |-> None, num_requests |-> 0]
    ELSE IF IsNone(np) /\ IsNone(t)
    \* line 106: len(None)
    THEN [err |-> "TypeError", prompts |-> None, num_requests |-> 0]
    ELSE [err |-> "ok", prompts |-> np,
          num_requests |-> IF ~IsNone(np) THEN len(np) ELSE len(t)]

\* the number of requests the arguments ask for
BatchLen(p, t) ==
    IF isinstance_str(p) THEN 1 ELSE IF ~IsNone(p) THEN len(p) ELSE len(t)

\* generate() drawing a request id before line 93 checks the arguments
GenerateCallIdFirst(p, sp, t, u) ==
    /\ pc = "idle"
    /\ calls < MaxCalls
    /\ Cardinality(unfinished) + BatchLen(p, t) <= MaxInFlight
    /\ calls' = calls + 1
    /\ pre' = [unfinished |-> unfinished, issued |-> Len(issued)]
    /\ ops' = NoOps
    /\ submitted' = <<>>
    /\ reported' = <<>>
    /\ partial' = 0
    /\ idle' = 0
    /\ raised' = "none"
    /\ result' = None
    /\ pbar' = NoBar
    /\ LET e == GenerateEntry(p, sp, t) IN
       IF e.err # "ok"
       THEN /\ outcome' = e.err
            /\ pc' = "idle"
            /\ FrameGone
       ELSE /\ outcome' = "none"
            /\ pc' = "submit"
            /\ prompts' = e.prompts
            /\ sampling_params' = DefaultSampling(sp)
            /\ prompt_token_ids' = t
            /\ use_tqdm' = u
            /\ num_requests' = e.num_requests
            /\ i' = 0
            /\ outputs' = <<>>
    /\ request_counter' = request_counter + 1
    /\ UNCHANGED <<unfinished, faults, issued>>

\* generate() is entered with the arguments (p, sp, t, u)
GenerateCall(p, sp, t, u) ==
    /\ pc = "idle"
    /\ calls < MaxCalls
    /\ Cardinality(unfinished) + BatchLen(p, t) <= MaxInFlight
    /\ calls' = calls + 1
    /\ pre' = [unfinished |-> unfinished, issued |-> Len(issued)]
    /\ ops' = NoOps
    /\ submitted' = <<>>
    /\ reported' = <<>>
    /\ partial' = 0
    /\ idle' = 0
    /\ raised' = "none"
    /\ result' = None
    /\ pbar' = NoBar
    /\ LET e == GenerateEntry(p, sp, t) IN
       IF e.err # "ok"
       THEN /\ outcome' = e.err
            /\ pc' = "idle"
            /\ FrameGone
       ELSE /\ outcome' = "none"
            /\ pc' = "submit"
            /\ prompts' = e.prompts
            /\ sampling_params' = DefaultSampling(sp)
            /\ prompt_token_ids' = t
            /\ use_tqdm' = u
            /\ num_requests' = e.num_requests
            /\ i' = 0
            /\ outputs' = <<>>
    /\ UNCHANGED <<request_counter, unfinished, faults, issued>>

Generate ==
    \E a \in CallArgs :
        /\ GenerateCall(a.prompts, a.sampling_params, a.prompt_token_ids,
                        a.use_tqdm)
        /\ raw' = a

(***************************************************************************)
(* generate(), lines 107-113, and _add_request().                          *)
(***************************************************************************)
\* line 122 reading the counter without advancing it
IssueIdStale(c) == [request_id |-> str(c), counter |-> c]

\* line 122: the request id, and the counter after next() advanced it
IssueId(c) ==
    LET nx == CounterNext(c) IN
    [request_id |-> str(nx.value), counter |-> nx.counter]

\* lines 108-112 indexing from the end of the lists
RequestArgsFromEnd(ps, ts, k) ==
    [prompt |-> IF ~IsNone(ps) THEN getitem(ps, len(ps) - 1 - k) ELSE None,
     token_ids |-> IF IsNone(ts) THEN None ELSE getitem(ts, len(ts) - 1 - k)]

\* lines 108-112: the arguments of the i-th _add_request
RequestArgs(ps, ts, k) ==
    [prompt |-> IF ~IsNone(ps) THEN getitem(ps, k) ELSE None,
     token_ids |-> IF IsNone(ts) THEN None ELSE getitem(ts, k)]

\* line 123: the call made on the engine
SubmitCall(request_id, args, sp, failed) ==
    [request_id |-> request_id, prompt |-> args.prompt,
     sampling_params |-> sp, prompt_token_ids |-> args.token_ids,
     raised |-> failed]

\* one iteration of the loop of line 107; the engine accepts the request
AddRequest ==
    /\ pc = "submit"
    /\ i < num_requests
    /\ LET nx == IssueId(request_counter)
           args == RequestArgs(prompts, prompt_token_ids, i)
       IN /\ request_counter' = nx.counter
          /\ unfinished' = add_request(unfinished, nx.request_id)
          /\ issued' = Append(issued, nx.request_id)
          /\ submitted' = Append(submitted,
                SubmitCall(nx.request_id, args, sampling_params, FALSE))
    /\ ops' = Called(ops, "add_request")
    /\ i' = i + 1
    /\ UNCHANGED <<pc, faults, prompts, sampling_params, prompt_token_ids,
                   use_tqdm, num_requests, outputs, pbar, outcome, result,
                   reported, partial, idle, raised, calls, raw, pre>>

\* one iteration of the loop of line 107; the engine's add_request raises,
\* and the exception leaves generate()
AddRequestRaises ==
    /\ pc = "submit"
    /\ i < num_requests
    /\ faults > 0
    /\ faults' = faults - 1
    /\ LET nx == IssueId(request_counter)
           args == RequestArgs(prompts, prompt_token_ids, i)
       IN /\ request_counter' = nx.counter
          /\ issued' = Append(issued, nx.request_id)
          /\ submitted' = Append(submitted,
                SubmitCall(nx.request_id, args, sampling_params, TRUE))
    /\ ops' = Called(ops, "add_request")
    /\ raised' = "add_request"
    /\ outcome' = "EngineFailure"
    /\ result' = None
    /\ pc' = "idle"
    /\ FrameGone
    /\ UNCHANGED <<unfinished, pbar, reported, partial, idle, calls, raw, pre>>

(***************************************************************************)
(* _run_engine().                                                          *)
(***************************************************************************)
\* lines 126-129 taking generate()'s num_requests for the total
RunEngineBeginBatchTotal ==
    /\ pc = "submit"
    /\ i = num_requests
    /\ IF use_tqdm
       THEN /\ pbar' = [made |-> pbar.made + 1,
                        total |-> num_requests,
                        n |-> 0, closed |-> 0]
            /\ ops' = Called(ops, "get_num_unfinished_requests")
       ELSE UNCHANGED <<pbar, ops>>
    /\ outputs' = <<>>
    /\ pc' = "loop"
    /\ UNCHANGED <<request_counter, unfinished, faults, prompts,
                   sampling_params, prompt_token_ids, use_tqdm, num_requests,
                   i, outcome, result, submitted, reported, partial, idle,
                   raised, issued, calls, raw, pre>>

\* lines 126-129
RunEngineBegin ==
    /\ pc = "submit"
    /\ i = num_requests
    /\ IF use_tqdm
       THEN /\ pbar' = [made |-> pbar.made + 1,
                        total |-> get_num_unfinished_requests(unfinished),
                        n |-> 0, closed |-> 0]
            /\ ops' = Called(ops, "get_num_unfinished_requests")
       ELSE UNCHANGED <<pbar, ops>>
    /\ outputs' = <<>>
    /\ pc' = "loop"
    /\ UNCHANGED <<request_counter, unfinished, faults, prompts,
                   sampling_params, prompt_token_ids, use_tqdm, num_requests,
                   i, outcome, result, submitted, reported, partial, idle,
                   raised, issued, calls, raw, pre>>

\* line 130 leaving the loop with one request still unfinished
LoopContinuesWhileMany(U) == Cardinality(U) > 1

\* line 130
LoopContinues(U) == has_unfinished_requests(U)

\* lines 132-134 keeping only the outputs of the call's own requests
FinishedOutputsOwn(outs) ==
    SelectSeq(outs, LAMBDA output :
        /\ output.finished
        /\ \E k \in 1..Len(submitted) : submitted[k].request_id = output.request_id)

\* lines 132-134 without the test of line 133
FinishedOutputsAll(outs) == outs

\* lines 132-134: the outputs of one step that are appended
FinishedOutputs(outs) ==
    SelectSeq(outs, LAMBDA output : output.finished)

\* the request ids of a sequence of outputs
Ids(outs) == [k \in 1..Len(outs) |-> outs[k].request_id]

\* lines 132-134 inserting at the front of outputs
CollectInFront(collected, outs) == FinishedOutputs(outs) \o collected

\* lines 132-134: outputs after the for loop over one step's outputs
Collect(collected, outs) == collected \o FinishedOutputs(outs)

\* lines 132-136 updating the bar once per step that finished a request
UpdatesPerStep(outs, tqdm_on) ==
    IF tqdm_on /\ \E k \in 1..Len(outs) : outs[k].finished THEN 1 ELSE 0

\* lines 132-136 updating the bar outside the test of line 133
UpdatesEveryOutput(outs, tqdm_on) == IF tqdm_on THEN Len(outs) ELSE 0

\* lines 132-136: the pbar.update(1) calls made over one step's outputs
Updates(outs, tqdm_on) ==
    IF tqdm_on THEN Len(FinishedOutputs(outs)) ELSE 0

\* lines 130-136 with the append of line 134 under the test of line 135
StepAppendTracked(outs) ==
    /\ pc = "loop"
    /\ LoopContinues(unfinished)
    /\ ops' = Called(Called(ops, "has_unfinished_requests"), "step")
    /\ outputs' = IF use_tqdm THEN Collect(outputs, outs) ELSE outputs
    /\ pbar' = [pbar EXCEPT !.n = @ + Updates(outs, use_tqdm)]
    /\ unfinished' = AfterStep(unfinished, outs)
    /\ reported' = reported \o Ids(SelectSeq(outs, LAMBDA o : o.finished))
    /\ partial' = partial + Len(SelectSeq(outs, LAMBDA o : ~o.finished))
    /\ UNCHANGED <<pc, request_counter, faults, prompts, sampling_params,
                   prompt_token_ids, use_tqdm, num_requests, i, outcome,
                   result, submitted, raised, issued, calls, raw, pre>>

\* lines 130-136: one iteration of the poll loop, step() returning outs
Step(outs) ==
    /\ pc = "loop"
    /\ LoopContinues(unfinished)
    /\ ops' = Called(Called(ops, "has_unfinished_requests"), "step")
    /\ outputs' = Collect(outputs, outs)
    /\ pbar' = [pbar EXCEPT !.n = @ + Updates(outs, use_tqdm)]
    /\ unfinished' = AfterStep(unfinished, outs)
    /\ reported' = reported \o Ids(SelectSeq(outs, LAMBDA o : o.finished))
    /\ partial' = partial + Len(SelectSeq(outs, LAMBDA o : ~o.finished))
    /\ UNCHANGED <<pc, request_counter, faults, prompts, sampling_params,
                   prompt_token_ids, use_tqdm, num_requests, i, outcome,
                   result, submitted, raised, issued, calls, raw, pre>>

\* a step in which the engine finishes at least one request
StepProgress ==
    \E outs \in StepResults(unfinished) :
        /\ \E k \in 1..Len(outs) : outs[k].finished
        /\ Step(outs)
        /\ idle' = idle

\* a step in which the engine finishes no request
StepIdle ==
    \E outs \in StepResults(unfinished) :
        /\ \A k \in 1..Len(outs) : ~outs[k].finished
        /\ idle < MaxIdle
        /\ Step(outs)
        /\ idle' = idle + 1

\* line 131 with the exception caught: the loop is left and what was
\* collected is returned
StepRaisesCaught ==
    /\ pc = "loop"
    /\ LoopContinues(unfinished)
    /\ faults > 0
    /\ faults' = faults - 1
    /\ ops' = Called(Called(ops, "has_unfinished_requests"), "step")
    /\ raised' = "step"
    /\ pbar' = IF use_tqdm THEN [pbar EXCEPT !.closed = @ + 1] ELSE pbar
    /\ outcome' = "returned"
    /\ result' = PyList(outputs)
    /\ pc' = "idle"
    /\ FrameGone
    /\ UNCHANGED <<request_counter, unfinished, submitted, reported, partial, idle, issued, calls, raw, pre>>

\* line 131: step() raises, and the exception leaves _run_engine() and
\* generate()
StepRaises ==
    /\ pc = "loop"
    /\ LoopContinues(unfinished)
    /\ faults > 0
    /\ faults' = faults - 1
    /\ ops' = Called(Called(ops, "has_unfinished_requests"), "step")
    /\ raised' = "step"
    /\ outcome' = "EngineFailure"
    /\ result' = None
    /\ pc' = "idle"
    /\ FrameGone
    /\ UNCHANGED <<request_counter, unfinished, pbar, submitted, reported, partial, idle, issued, calls, raw, pre>>

\* lines 130, 138-140: the loop ends and _run_engine() returns
RunEngineReturn ==
    /\ pc = "loop"
    /\ ~LoopContinues(unfinished)
    /\ ops' = Called(ops, "has_unfinished_requests")
    /\ pbar' = IF use_tqdm THEN [pbar EXCEPT !.closed = @ + 1] ELSE pbar
    /\ result' = PyList(outputs)
    /\ outcome' = "returned"
    /\ pc' = "idle"
    /\ FrameGone
    /\ UNCHANGED <<request_counter, unfinished, faults, submitted, reported, partial, idle, raised, issued, calls, raw, pre>>

Next ==
    \/ Generate
    \/ AddRequest
    \/ AddRequestRaises
    \/ RunEngineBegin
    \/ StepProgress
    \/ StepIdle
    \/ StepRaises
    \/ RunEngineReturn

Spec == Init /\ [][Next]_vars

\* the driver runs on, and an engine that can finish a request does so
FairSpec ==
    /\ Spec
    /\ WF_vars(AddRequest)
    /\ WF_vars(RunEngineBegin)
    /\ WF_vars(StepProgress)
    /\ WF_vars(RunEngineReturn)

(***************************************************************************)
(* Vocabulary of the properties.                                           *)
(***************************************************************************)
Distinct(seq) == \A a, b \in 1..Len(seq) : a # b => seq[a] # seq[b]

\* the ids of the requests the current call registered, in submission order
SubmittedIds ==
    LET ok == SelectSeq(submitted, LAMBDA c : ~c.raised)
    IN [k \in 1..Len(ok) |-> ok[k].request_id]

Returned == pc = "idle" /\ outcome = "returned"

ResultIds == Ids(result.val)

\* the number of prompts passed: a bare string is one prompt
PromptCount(p) == IF isinstance_str(p) THEN 1 ELSE len(p)

(***************************************************************************)
(* C1.  generate(prompts, no token ids) with a non-empty prompt list.      *)
(***************************************************************************)
C1_Case ==
    /\ Returned
    /\ raw.prompts.tag = "list"
    /\ len(raw.prompts) > 0
    /\ IsNone(raw.prompt_token_ids)

\* C1: a call with a non-empty prompt list and no token ids returns exactly
\* one output per input prompt, and no two returned outputs carry the same
\* request_id.
C1_OnePerPrompt ==
    C1_Case => /\ Len(result.val) = len(raw.prompts)
               /\ Distinct(ResultIds)

(***************************************************************************)
(* C2, C3.  The order of the returned list.                                *)
(***************************************************************************)
\* C2: the returned list is ordered by completion: its outputs appear in
\* the order in which the successive step() calls reported them finished,
\* and within one step in the order of the step's result.
C2_CompletionOrder ==
    Returned => ResultIds = reported

\* a call that returned the second request it submitted before the first
C2_Witness ==
    /\ Returned
    /\ Len(SubmittedIds) = 2
    /\ ResultIds = <<SubmittedIds[2], SubmittedIds[1]>>

\* C3 (the docstring of generate): the i-th element of the returned list is
\* the output of the i-th input prompt.
C3_InputOrder ==
    Returned => ResultIds = SubmittedIds

(***************************************************************************)
(* C4, C5.  Rejected arguments.                                            *)
(***************************************************************************)
C4_Case ==
    /\ calls > 0
    /\ IsNone(raw.prompts)
    /\ IsNone(raw.prompt_token_ids)

\* C4: a call with neither prompts nor token ids fails with ValueError
\* before any engine interaction: no add_request, step,
\* has_unfinished_requests or get_num_unfinished_requests call is made.
C4_NeitherRejected ==
    C4_Case => /\ pc = "idle"
               /\ outcome = "ValueError"
               /\ IsNone(result)
               /\ ops = NoOps
               /\ submitted = <<>>
               /\ unfinished = pre.unfinished

\* such a call made while the engine holds a request of an earlier call
C4_Witness ==
    /\ C4_Case
    /\ outcome = "ValueError"
    /\ pre.unfinished # {}

C5_Case ==
    /\ calls > 0
    /\ ~IsNone(raw.prompts)
    /\ ~IsNone(raw.prompt_token_ids)
    /\ PromptCount(raw.prompts) # len(raw.prompt_token_ids)

\* C5: a call with prompts and token ids of different lengths fails with
\* ValueError and no request of it reaches the engine: the engine's
\* submission count and its registered requests are as before the call.
C5_MismatchRejected ==
    C5_Case => /\ pc = "idle"
               /\ outcome = "ValueError"
               /\ IsNone(result)
               /\ ops.add_request = 0
               /\ submitted = <<>>
               /\ Len(issued) = pre.issued
               /\ unfinished = pre.unfinished

\* a rejected call whose first prompt and first token list would have paired
C5_Witness ==
    /\ C5_Case
    /\ outcome = "ValueError"
    /\ PromptCount(raw.prompts) >= 1
    /\ len(raw.prompt_token_ids) >= 1

(***************************************************************************)
(* C6.  Request ids.                                                       *)
(***************************************************************************)
IssuedIdsIncrease ==
    /\ \A a, b \in 1..Len(issued) :
          a < b => issued[a] # issued[b] /\ int(issued[a]) < int(issued[b])
    /\ \A a \in 1..Len(issued) : int(issued[a]) < request_counter

\* C6: every request id the instance passes to add_request differs from,
\* and is greater in counter order than, every id it passed before, across
\* calls as within one; the counter is never reset, reused or decremented.
C6_IdsDistinctIncreasing ==
    /\ []IssuedIdsIncrease
    /\ [][request_counter' >= request_counter]_vars

\* two calls that issued two ids each
C6_Witness ==
    /\ calls = 2
    /\ pre.issued = 2
    /\ Len(issued) = 4

(***************************************************************************)
(* C7.  Termination of the poll loop.                                      *)
(***************************************************************************)
\* C7: generate returns only when the engine has no unfinished requests,
\* those left by earlier calls included; while it has some, each turn of
\* the loop calls step; and a call that passed validation returns
\* eventually once the engine raises no more errors and finishes the
\* requests it can finish.
C7_ReturnsWhenAllFinished ==
    /\ [](Returned => ~has_unfinished_requests(unfinished))
    /\ [][(pc = "loop" /\ has_unfinished_requests(unfinished))
             => /\ ops'.step = ops.step + 1
                /\ pc' = "loop" \/ outcome' = "EngineFailure"]_vars
    /\ \A c \in 1..MaxCalls :
          (calls = c /\ pc # "idle" /\ faults = 0) ~> (calls = c /\ Returned)

\* a call that returned after also waiting for a request of an earlier call
C7_Witness ==
    /\ Returned
    /\ pre.unfinished # {}
    /\ Len(SubmittedIds) > 0
    /\ \E k \in 1..Len(ResultIds) : ResultIds[k] \in pre.unfinished

(***************************************************************************)
(* C8.  Progress accounting.                                               *)
(***************************************************************************)
ProgressMatchesResult ==
    (Returned /\ raw.use_tqdm) =>
        /\ pbar.made = 1
        /\ pbar.n = Len(result.val)
        /\ pbar.closed = 1

\* C8: with use_tqdm, a call that returns made as many pbar.update(1) calls
\* as it returns outputs, and closed the bar exactly once: when the loop
\* had ended, after the last step, on its way to the return.
C8_ProgressMatchesResult ==
    /\ []ProgressMatchesResult
    /\ [][pbar'.closed > pbar.closed
             => /\ pc = "loop"
                /\ ~has_unfinished_requests(unfinished)
                /\ ops'.step = ops.step
                /\ pbar'.closed = 1
                /\ outcome' = "returned"]_vars

C8_Witness ==
    /\ Returned
    /\ raw.use_tqdm
    /\ Len(result.val) = 2
    /\ ops.step = 2

(***************************************************************************)
(* C9.  Engine errors.                                                     *)
(***************************************************************************)
EngineErrorEndsCall ==
    raised # "none" =>
        /\ pc = "idle"
        /\ outcome = "EngineFailure"
        /\ IsNone(result)
        /\ pbar.closed = 0
        /\ \A k \in 1..Len(submitted) :
              submitted[k].raised <=> (raised = "add_request" /\ k = Len(submitted))

\* C9: when add_request or step raises, the call ends there with the
\* engine's error: no engine operation is invoked again in that call, the
\* caller gets no result list, and the bar is not closed.
C9_EngineErrorPropagates ==
    /\ []EngineErrorEndsCall
    /\ [][(raised # "none" /\ calls' = calls) => ops' = ops]_vars

\* step raised after an earlier step of the call had finished a request
C9_Witness ==
    /\ outcome = "EngineFailure"
    /\ raised = "step"
    /\ raw.use_tqdm
    /\ Len(reported) > 0

(***************************************************************************)
(* C10.  A bare prompt string.                                             *)
(***************************************************************************)
BareStringCall ==
    (calls > 0 /\ isinstance_str(raw.prompts)) =>
        /\ outcome = "ValueError" <=>
              (~IsNone(raw.prompt_token_ids) /\ len(raw.prompt_token_ids) # 1)
        /\ Len(submitted) <= 1
        /\ \A k \in 1..Len(submitted) :
              /\ submitted[k].prompt = raw.prompts
              /\ submitted[k].prompt_token_ids =
                    (IF IsNone(raw.prompt_token_ids) THEN None
                     ELSE raw.prompt_token_ids.val[1])

\* C10: generate called with a bare string s does what generate called with
\* the list [s] does: wherever a call is made, with the other arguments of
\* that call, the step is one of generate(s, ...) exactly if it is one of
\* generate([s], ...) (the same validation outcome and the same locals,
\* hence the same add_request calls and the same result); the length
\* compared with the token lists is 1 and the one request submitted
\* carries the whole string.
C10_BareStringAsList ==
    /\ []BareStringCall
    /\ [][\A s \in PromptStrs :
             GenerateCall(s, raw'.sampling_params, raw'.prompt_token_ids,
                          raw'.use_tqdm)
             <=> GenerateCall(PyList(<<s>>), raw'.sampling_params,
                              raw'.prompt_token_ids, raw'.use_tqdm)]_vars

\* a call with the bare two-character string returned its one output
C10_Witness ==
    /\ Returned
    /\ raw.prompts = PyStr(<<"b", "c">>)
    /\ ~IsNone(raw.prompt_token_ids)
    /\ Len(result.val) = 1

(***************************************************************************)
(* C11.  Submission order.                                                 *)
(***************************************************************************)
\* what the k-th add_request of the current call has to carry (k from 1)
ExpectedPrompt(k) ==
    IF IsNone(raw.prompts) THEN None
    ELSE IF isinstance_str(raw.prompts) THEN raw.prompts
    ELSE raw.prompts.val[k]

ExpectedTokens(k) ==
    IF IsNone(raw.prompt_token_ids) THEN None
    ELSE raw.prompt_token_ids.val[k]

ExpectedCount ==
    IF ~IsNone(raw.prompts) THEN PromptCount(raw.prompts)
    ELSE len(raw.prompt_token_ids)

SubmitsInInputOrder ==
    /\ ops.add_request = Len(submitted)
    /\ \A k \in 1..Len(submitted) :
          /\ k <= ExpectedCount
          /\ submitted[k].prompt = ExpectedPrompt(k)
          /\ submitted[k].prompt_token_ids = ExpectedTokens(k)
          /\ submitted[k].sampling_params = DefaultSampling(raw.sampling_params)
          /\ submitted[k].request_id = issued[pre.issued + k]
          /\ k < Len(submitted) =>
                int(submitted[k].request_id) < int(submitted[k + 1].request_id)
    /\ (ops.step > 0 \/ Returned) => Len(submitted) = ExpectedCount

\* C11: within one call the requests are submitted in input order: the
\* k-th add_request carries the k-th prompt (None without prompts), the
\* k-th token list (None without token ids) and the one sampling
\* configuration of the call, under an id smaller than the next one's;
\* each id is drawn from the counter in the step that submits it; there are
\* as many add_request calls as prompts (as token lists without prompts)
\* and all of them precede the call's first step().
C11_SubmittedInInputOrder ==
    /\ []SubmitsInInputOrder
    /\ [][request_counter' # request_counter
             => /\ ops'.add_request = ops.add_request + 1
                /\ Len(submitted') = Len(submitted) + 1
                /\ submitted'[Len(submitted')].request_id = str(request_counter)]_vars
    /\ [][(ops.step > 0 /\ calls' = calls)
             => ops'.add_request = ops.add_request /\ submitted' = submitted]_vars

\* a call that paired two different prompts with their token lists returned
C11_Witness ==
    /\ Returned
    /\ Len(submitted) = 2
    /\ raw.prompts.tag = "list"
    /\ raw.prompt_token_ids.tag = "list"
    /\ submitted[1].prompt # submitted[2].prompt
    /\ ops.step > 0

(***************************************************************************)
(* C12.  Only finished outputs are collected.                              *)
(***************************************************************************)
AllFinished(outs) == \A k \in 1..Len(outs) : outs[k].finished

FinishedOnlyCollected ==
    /\ pc = "loop" =>
          /\ AllFinished(outputs)
          /\ Ids(outputs) = reported
          /\ use_tqdm => pbar.n = Len(reported)
    /\ Returned =>
          /\ AllFinished(result.val)
          /\ ResultIds = reported
          /\ Len(result.val) = Len(reported)
          /\ raw.use_tqdm => pbar.n = Len(reported)

\* C12: every element of the returned list has finished = true, and the
\* list is the subsequence of the outputs the call's step() calls yielded
\* that are finished: an output that is not finished is neither collected
\* nor counted on the bar (a step that yields only such outputs leaves the
\* list and the bar as they are), and a finished one is never dropped.
C12_OnlyFinishedReturned ==
    /\ []FinishedOnlyCollected
    /\ [][(partial' > partial /\ reported' = reported)
             => outputs' = outputs /\ pbar'.n = pbar.n]_vars

\* a call with the bar that was yielded an output not finished returned two
C12_Witness ==
    /\ Returned
    /\ raw.use_tqdm
    /\ partial > 0
    /\ Len(result.val) = 2

(***************************************************************************)
(* C13.  The total the bar is created with.                                *)
(***************************************************************************)
BarStartedOnce ==
    /\ pbar.made <= 1
    /\ pc = "submit" => pbar.made = 0
    /\ (raw.use_tqdm /\ (pc = "loop" \/ Returned \/ raised = "step")) =>
          /\ pbar.made = 1
          /\ ops.get_num_unfinished_requests = 1
          /\ pbar.total = Cardinality(pre.unfinished) + Len(submitted)
          /\ Len(submitted) = ExpectedCount
          /\ pre.unfinished = {} => pbar.total = ExpectedCount
          /\ pre.unfinished # {} => pbar.total > ExpectedCount

\* C13: with use_tqdm the bar is created exactly once per call, after all
\* add_request calls of the call and before its first step(), with total
\* the engine's get_num_unfinished_requests() at that moment: the batch
\* size when the engine held no unfinished request before the call, more
\* than the batch size when it held some.
C13_BarTotalIsEngineCount ==
    /\ []BarStartedOnce
    /\ [][pbar'.made > pbar.made
             => /\ pc = "submit"
                /\ Len(submitted) = ExpectedCount
                /\ ops.step = 0 /\ ops'.step = 0
                /\ ops'.get_num_unfinished_requests = 1
                /\ pbar'.total = get_num_unfinished_requests(unfinished)]_vars

\* a call with the bar that found a request of an earlier call in the engine
C13_Witness ==
    /\ Returned
    /\ raw.use_tqdm
    /\ pre.unfinished # {}
    /\ ExpectedCount >= 1
    /\ pbar.total > ExpectedCount

(***************************************************************************)
(* C14.  The bar only observes.                                            *)
(***************************************************************************)
\* without use_tqdm no bar exists and the engine is never asked its count;
\* with it, the count is asked once, for the one bar
TrackerOnlyWhenAsked ==
    /\ (calls > 0 /\ ~raw.use_tqdm) =>
          pbar = NoBar /\ ops.get_num_unfinished_requests = 0
    /\ (calls > 0 /\ raw.use_tqdm) =>
          ops.get_num_unfinished_requests = pbar.made

\* the add_request, has_unfinished_requests and step calls made so far
EngineCalls == <<ops.add_request, ops.has_unfinished_requests, ops.step>>

\* a step of a call as the driver without a bar takes it, told by what the
\* engine did (unfinished', reported', raised'): use_tqdm and pbar do not
\* occur in it
BarlessStep ==
    \/ /\ pc = "submit" /\ i < num_requests
       /\ EngineCalls' = <<ops.add_request + 1, ops.has_unfinished_requests,
                           ops.step>>
       /\ Len(submitted') = Len(submitted) + 1
       /\ outputs' = outputs
       /\ pc' = "submit" \/ (raised' = "add_request" /\ IsNone(result'))
    \/ /\ pc = "submit" /\ i = num_requests
       /\ EngineCalls' = EngineCalls
       /\ submitted' = submitted
       /\ outputs' = <<>>
       /\ pc' = "loop"
    \/ /\ pc = "loop" /\ unfinished # {}
       /\ EngineCalls' = <<ops.add_request, ops.has_unfinished_requests + 1,
                           ops.step + 1>>
       /\ submitted' = submitted
       /\ \/ /\ raised' = "none"
             /\ pc' = "loop"
             /\ Ids(outputs') =
                   Ids(outputs) \o SubSeq(reported', Len(reported) + 1,
                                          Len(reported'))
          \/ /\ raised' = "step"
             /\ pc' = "idle"
             /\ outcome' = "EngineFailure"
             /\ IsNone(result')
    \/ /\ pc = "loop" /\ unfinished = {}
       /\ EngineCalls' = <<ops.add_request, ops.has_unfinished_requests + 1,
                           ops.step>>
       /\ submitted' = submitted
       /\ pc' = "idle"
       /\ outcome' = "returned"
       /\ result' = PyList(outputs)

\* the entry of a call, told without use_tqdm
BarlessEntry ==
    LET e == GenerateEntry(raw'.prompts, raw'.sampling_params,
                           raw'.prompt_token_ids)
    IN /\ EngineCalls' = <<0, 0, 0>>
       /\ submitted' = <<>>
       /\ IF e.err = "ok" THEN pc' = "submit" /\ num_requests' = e.num_requests
          ELSE pc' = "idle" /\ outcome' = e.err

\* C14: the bar only observes: whichever use_tqdm, every step of a call
\* makes the add_request, has_unfinished_requests and step calls and
\* builds the result that the driver without a bar makes and builds from
\* the same state under the same engine behaviour; with use_tqdm there is
\* the one extra get_num_unfinished_requests call, and without it no bar
\* operation is made at all.
C14_ProgressOnlyObserves ==
    /\ []TrackerOnlyWhenAsked
    /\ [][IF calls' = calls THEN BarlessStep ELSE BarlessEntry]_vars

\* a call without the bar that took two steps to return two outputs
C14_Witness ==
    /\ Returned
    /\ ~raw.use_tqdm
    /\ Len(result.val) = 2
    /\ ops.step = 2
    /\ pbar = NoBar

(***************************************************************************)
(* C15.  A rejected call changes nothing.                                  *)
(***************************************************************************)
\* the ids issued so far are the counter's values in order, with no gap:
\* a call issues the ids that follow those of the last call that issued any
IdsWithoutGap ==
    /\ request_counter = Len(issued)
    /\ \A k \in 1..Len(issued) : issued[k] = str(k - 1)

\* what a later call can read: the counter, the engine, the driver's frame
Readable ==
    <<request_counter, unfinished, faults, pc, prompts, sampling_params,
      prompt_token_ids, use_tqdm, num_requests, i, outputs>>

\* C15: a call that fails with ValueError leaves the engine and the
\* request counter as they were (no engine call is made, nothing a later
\* call reads is changed), so the next valid call issues the ids, makes the
\* engine calls and returns the result it would have without the failed
\* call: the ids issued stay the counter's values without a gap.
C15_RejectedCallChangesNothing ==
    /\ []IdsWithoutGap
    /\ [](outcome = "ValueError" => ops = NoOps /\ submitted = <<>>)
    /\ [][(calls' # calls /\ outcome' = "ValueError")
             => Readable' = Readable /\ issued' = issued]_vars

\* a call rejected when the counter had advanced and the engine held a request
C15_Witness ==
    /\ outcome = "ValueError"
    /\ pre.issued = 2
    /\ request_counter = 2
    /\ unfinished # {}
    /\ unfinished = pre.unfinished

(***************************************************************************)
(* C16.  Requests an aborted call left in the engine.                      *)
(***************************************************************************)
Range(seq) == {seq[k] : k \in 1..Len(seq)}

\* the requests the engine holds during and after a call: those it held
\* before, and those the call registered, but for the ones reported finished
CarriedOver ==
    /\ raised = "add_request" =>
          /\ Len(SubmittedIds) = Len(submitted) - 1
          /\ unfinished = pre.unfinished \cup Range(SubmittedIds)
    /\ (pc = "loop" \/ raised = "step") =>
          unfinished = (pre.unfinished \cup Range(SubmittedIds)) \ Range(reported)
    /\ Returned =>
          /\ unfinished = {}
          /\ pre.unfinished \subseteq Range(ResultIds)
          /\ Range(ResultIds) = pre.unfinished \cup Range(SubmittedIds)
          /\ Len(result.val) = Cardinality(pre.unfinished) + Len(SubmittedIds)

\* C16: a call aborted by an engine error leaves its registered requests in
\* the engine (the k-1 registered before a failing k-th add_request; those
\* not yet finished when step fails), and the next call carries them: it
\* returns only when they are finished too, with their outputs in its
\* list, which is then longer than its input and holds ids the call did
\* not issue.
C16_LeftoversCarriedOver ==
    /\ CarriedOver
    /\ (Returned /\ pre.unfinished # {}) =>
          /\ Len(result.val) > ExpectedCount
          /\ \E k \in 1..Len(ResultIds) :
                ResultIds[k] \notin Range(SubmittedIds)

\* a call returned, besides its own output, the output of the one request
\* that was left of the two ids the call before had issued
C16_Witness ==
    /\ Returned
    /\ pre.issued = 2
    /\ Cardinality(pre.unfinished) = 1
    /\ ExpectedCount = 1
    /\ Len(result.val) = 2
    /\ \E k \in 1..2 : ResultIds[k] \in pre.unfinished

(***************************************************************************)
(* C17.  The bar ends full.                                                *)
(***************************************************************************)
\* C17: with use_tqdm, and an engine that reports each registered request
\* finished once and is given no request during the poll loop, the number
\* of update(1) calls never exceeds the bar's total (in the loop it is the
\* total less the requests still unfinished), and equals the total when
\* the call returns.
C17_BarEndsFull ==
    (calls > 0 /\ raw.use_tqdm /\ pbar.made = 1) =>
        /\ pbar.n <= pbar.total
        /\ pc = "loop" => pbar.n + Cardinality(unfinished) = pbar.total
        /\ Returned => pbar.n = pbar.total

\* a call with the bar returned after one step had finished its two requests
C17_Witness ==
    /\ Returned
    /\ raw.use_tqdm
    /\ pbar.total = 2
    /\ pbar.n = 2
    /\ ops.step = 1

(***************************************************************************)
(* C18.  An empty batch.                                                   *)
(***************************************************************************)
C18_Case ==
    /\ calls > 0
    /\ \/ raw.prompts = PyList(<<>>) /\ IsNone(raw.prompt_token_ids)
       \/ IsNone(raw.prompts) /\ raw.prompt_token_ids = PyList(<<>>)

\* C18: a call with an empty prompt list and no token ids, or an empty
\* token id list and no prompts, is not rejected: it draws no id and makes
\* no add_request call, and when the engine holds no unfinished request it
\* makes no step() call and returns the empty list.
C18_EmptyBatchAccepted ==
    C18_Case =>
        /\ outcome \notin {"ValueError", "TypeError"}
        /\ submitted = <<>>
        /\ ops.add_request = 0
        /\ Len(issued) = pre.issued
        /\ pre.unfinished = {} =>
              /\ ops.step = 0
              /\ raised = "none"
              /\ pc = "idle" => Returned /\ result = PyList(<<>>)

\* the call with the empty token id list returned the empty list
C18_Witness ==
    /\ C18_Case
    /\ IsNone(raw.prompts)
    /\ Returned
    /\ pre.unfinished = {}
    /\ result = PyList(<<>>)
    /\ ops.has_unfinished_requests = 1
====
